---- MODULE Spec2Model ----
(***************************************************************************)
(* Elementary row operations of nalgebra_lineq on the matrix of a linear   *)
(* system: row exchange, scaled row addition and row scaling, each with an *)
(* unchecked entry point and a checked one that validates the row indices  *)
(* first.                                                                  *)
(*                                                                         *)
(* The matrix is a record [nrows, ncols, data] with data indexed by the    *)
(* zero-based pair <<i, j>>, as nalgebra's m[(i, j)].  The scalar type T   *)
(* is generic in the source; the model instantiates it with the exact      *)
(* rationals the tests use (num_rational::BigRational), kept in lowest     *)
(* terms as <<numerator, denominator>> with a positive denominator.        *)
(***************************************************************************)
EXTENDS Integers, Sequences, FiniteSets, TLC

VARIABLES m, hist

vars == <<m, hist>>

(***************************************************************************)
(* Bounds of the model.                                                    *)
(***************************************************************************)
\* largest row index a caller passes
MaxIdx == 5
\* largest numerator (in absolute value) and largest denominator of a factor
MaxNum == 4
MaxDen == 1
\* the generated initial matrices have at most MaxCells entries, each an
\* integer in 0..MaxVal
MaxCells == 4
MaxVal == 1
\* the same for the specification of two calls in succession: row indices,
\* factors (the integers up to SeqMaxNum in absolute value and their
\* reciprocals) and cells of the generated initial matrices
SeqMaxIdx == 1
SeqMaxNum == 2
SeqMaxCells == 2

(***************************************************************************)
(* Scalars: exact rationals.                                               *)
(***************************************************************************)
Abs(x) == IF x < 0 THEN -x ELSE x

RECURSIVE GCD(_, _)
GCD(a, b) == IF b = 0 THEN a ELSE GCD(b, a % b)

\* BigRational::new(n, d): the fraction n/d reduced to lowest terms
Rat(n, d) ==
    LET g == GCD(Abs(n), d)
    IN  IF g = 0 THEN <<0, 1>> ELSE <<n \div g, d \div g>>

\* T: Mul<&T, Output = T>
Mul(a, b) == Rat(a[1] * b[1], a[2] * b[2])

\* T: AddAssign
Add(a, b) == Rat(a[1] * b[2] + b[1] * a[2], a[2] * b[2])

Int2Rat(k) == <<k, 1>>

RatsUpTo(maxNum, maxDen) ==
    {Rat(n, d) : n \in (-maxNum)..maxNum, d \in 1..maxDen}

(***************************************************************************)
(* The matrix collaborator (nalgebra::Matrix).                             *)
(***************************************************************************)
nrows(M) == M.nrows

ncols(M) == M.ncols

Cells(nr, nc) == (0..(nr - 1)) \X (0..(nc - 1))

\* a matrix from its rows, given as a sequence of sequences of integers
matrix(rows) ==
    [nrows |-> Len(rows),
     ncols |-> Len(rows[1]),
     data  |-> [c \in Cells(Len(rows), Len(rows[1])) |->
                   Int2Rat(rows[c[1] + 1][c[2] + 1])]]

InBounds(M, c) == c[1] < M.nrows /\ c[2] < M.ncols

\* An execution that does not run to its end is the record of how it stopped
\* and of the matrix at that point.  Panicked: a bounds check of the matrix
\* failed ("Matrix index out of bounds").  Undefined: an unchecked access was
\* made outside the matrix, which is undefined behaviour; the storage S is
\* generic, so what the access touches is not determined by the source.
Panicked(M) == [fault |-> "panic", m |-> M]

Undefined(M) == [fault |-> "ub", m |-> M]

IsFault(X) == "fault" \in DOMAIN X

\* Matrix::swap_unchecked: exchange of two entries, no bounds check
swap_unchecked(M, a, b) ==
    IF ~InBounds(M, a) \/ ~InBounds(M, b) THEN Undefined(M)
    ELSE [M EXCEPT !.data = [c \in DOMAIN M.data |->
                                IF c = a THEN M.data[b]
                                ELSE IF c = b THEN M.data[a]
                                ELSE M.data[c]]]

(***************************************************************************)
(* Results of the checked calls.                                           *)
(***************************************************************************)
Ok == [tag |-> "Ok"]

FirstIdxOutOfBounds(p) == [tag |-> "FirstIdxOutOfBounds", idcs |-> p]

SecondIdxOutOfBounds(p) == [tag |-> "SecondIdxOutOfBounds", idcs |-> p]

BothIdcesOutOfBounds(p) == [tag |-> "BothIdcesOutOfBounds", idcs |-> p]

RowIdxOutOfBoundsError(i) == [tag |-> "RowIdxOutOfBoundsError", idx |-> i]

IsOk(r) == r.tag = "Ok"

(***************************************************************************)
(* Row exchange (row_xchg.rs).                                             *)
(***************************************************************************)
\* the for_each over the columns j..ncols-1
RECURSIVE row_xchg_loop(_, _, _, _)
row_xchg_loop(M, i_1, i_2, j) ==
    IF j >= ncols(M) THEN M
    ELSE LET swapped == swap_unchecked(M, <<i_1, j>>, <<i_2, j>>)
         IN  IF IsFault(swapped) THEN swapped
             ELSE row_xchg_loop(swapped, i_1, i_2, j + 1)

\* faulty variant: the first column is left out of the exchange
row_xchg_unchecked_SkipsColumn(M, i_1, i_2) == row_xchg_loop(M, i_1, i_2, 1)

\* faulty variant: row i_2 is copied over row i_1 and row i_2 keeps its entries
row_xchg_unchecked_Copies(M, i_1, i_2) ==
    IF i_1 >= nrows(M) \/ i_2 >= nrows(M) THEN Undefined(M)
    ELSE
    [M EXCEPT !.data = [c \in DOMAIN M.data |->
                           IF c[1] = i_1 THEN M.data[<<i_2, c[2]>>]
                           ELSE M.data[c]]]

row_xchg_unchecked(M, i_1, i_2) == row_xchg_loop(M, i_1, i_2, 0)

\* faulty variant: equal indices are refused
row_xchg_RefusesSelf(M, i_1, i_2) ==
    IF (i_1 >= nrows(M) /\ i_2 >= nrows(M)) \/ i_1 = i_2
    THEN [res |-> BothIdcesOutOfBounds(<<i_1, i_2>>), m |-> M]
    ELSE IF i_1 >= nrows(M)
    THEN [res |-> FirstIdxOutOfBounds(<<i_1, i_2>>), m |-> M]
    ELSE IF i_2 >= nrows(M)
    THEN [res |-> SecondIdxOutOfBounds(<<i_1, i_2>>), m |-> M]
    ELSE [res |-> Ok, m |-> row_xchg_unchecked(M, i_1, i_2)]

\* the checked call: the result and the matrix it leaves
row_xchg(M, i_1, i_2) ==
    IF i_1 >= nrows(M) /\ i_2 >= nrows(M)
    THEN [res |-> BothIdcesOutOfBounds(<<i_1, i_2>>), m |-> M]
    ELSE IF i_1 >= nrows(M)
    THEN [res |-> FirstIdxOutOfBounds(<<i_1, i_2>>), m |-> M]
    ELSE IF i_2 >= nrows(M)
    THEN [res |-> SecondIdxOutOfBounds(<<i_1, i_2>>), m |-> M]
    ELSE [res |-> Ok, m |-> row_xchg_unchecked(M, i_1, i_2)]

(***************************************************************************)
(* Row addition (row_add.rs).  self is the parameter object                *)
(* [inout_row_zbi, in_row_zbi, factor].                                    *)
(***************************************************************************)
RowAdd(i_1, i_2, f) ==
    [type |-> "RowAdd", inout_row_zbi |-> i_1, in_row_zbi |-> i_2, factor |-> f]

\* the loop over the columns j..ncols-1: the entry of the "in row" is read
\* by value through m[(i_2, j)], the bounds-checked Index of the matrix, then
\* the entry of the "inout row" is updated in place through get_unchecked_mut
RECURSIVE RowAdd_loop(_, _, _, _, _)
RowAdd_loop(M, i_1, i_2, factor, j) ==
    IF j >= ncols(M) THEN M
    ELSE IF ~InBounds(M, <<i_2, j>>) THEN Panicked(M)
    ELSE IF ~InBounds(M, <<i_1, j>>) THEN Undefined(M)
    ELSE LET corresponding_entry == M.data[<<i_2, j>>]
         IN  RowAdd_loop(
                 [M EXCEPT !.data[<<i_1, j>>] =
                               Add(@, Mul(corresponding_entry, factor))],
                 i_1, i_2, factor, j + 1)

\* faulty variant: the first column is left out
RowAdd_perform_unchecked_SkipsColumn(self, M) ==
    RowAdd_loop(M, self.inout_row_zbi, self.in_row_zbi, self.factor, 1)

\* faulty variant: the entry scaled is read from the "inout row"
RowAdd_perform_unchecked_ReadsInout(self, M) ==
    RowAdd_loop(M, self.inout_row_zbi, self.inout_row_zbi, self.factor, 0)

\* faulty variant: a row is never added to itself
RowAdd_perform_unchecked_SkipsSelf(self, M) ==
    IF self.inout_row_zbi = self.in_row_zbi THEN M
    ELSE RowAdd_loop(M, self.inout_row_zbi, self.in_row_zbi, self.factor, 0)

RowAdd_perform_unchecked(self, M) ==
    RowAdd_loop(M, self.inout_row_zbi, self.in_row_zbi, self.factor, 0)

\* faulty variant: the errors carry the pair in the reverse order
RowAdd_validate_SwapsPair(self, M) ==
    LET i_1 == self.inout_row_zbi
        i_2 == self.in_row_zbi
    IN  IF i_1 >= nrows(M) /\ i_2 >= nrows(M) THEN BothIdcesOutOfBounds(<<i_2, i_1>>)
        ELSE IF i_1 >= nrows(M) THEN FirstIdxOutOfBounds(<<i_2, i_1>>)
        ELSE IF i_2 >= nrows(M) THEN SecondIdxOutOfBounds(<<i_2, i_1>>)
        ELSE Ok

RowAdd_validate(self, M) ==
    LET i_1 == self.inout_row_zbi
        i_2 == self.in_row_zbi
    IN  IF i_1 >= nrows(M) /\ i_2 >= nrows(M) THEN BothIdcesOutOfBounds(<<i_1, i_2>>)
        ELSE IF i_1 >= nrows(M) THEN FirstIdxOutOfBounds(<<i_1, i_2>>)
        ELSE IF i_2 >= nrows(M) THEN SecondIdxOutOfBounds(<<i_1, i_2>>)
        ELSE Ok

(***************************************************************************)
(* Row multiplication (row_mul.rs).  self is the parameter object          *)
(* [row_zbi, factor].                                                      *)
(***************************************************************************)
RowMul(i, f) == [type |-> "RowMul", row_zbi |-> i, factor |-> f]

RECURSIVE RowMul_loop(_, _, _, _)
RowMul_loop(M, i, factor, j) ==
    IF j >= ncols(M) THEN M
    ELSE IF ~InBounds(M, <<i, j>>) THEN Undefined(M)
    ELSE RowMul_loop([M EXCEPT !.data[<<i, j>>] = Mul(@, factor)],
                     i, factor, j + 1)

\* faulty variant: row 0 is scaled, whatever row_zbi
RowMul_perform_unchecked_FirstRow(self, M) ==
    RowMul_loop(M, 0, self.factor, 0)

\* faulty variant: the factor is added to the entries
RowMul_perform_unchecked_Adds(self, M) ==
    [M EXCEPT !.data = [c \in DOMAIN M.data |->
                           IF c[1] = self.row_zbi
                           THEN Add(M.data[c], self.factor)
                           ELSE M.data[c]]]

RowMul_perform_unchecked(self, M) ==
    RowMul_loop(M, self.row_zbi, self.factor, 0)

\* faulty variant: the index equal to the row count is accepted
RowMul_validate_OffByOne(self, M) ==
    LET row_zero_based_idx == self.row_zbi
    IN  IF row_zero_based_idx > nrows(M)
        THEN RowIdxOutOfBoundsError(row_zero_based_idx)
        ELSE Ok

\* faulty variant: the error carries the row count
RowMul_validate_CarriesCount(self, M) ==
    LET row_zero_based_idx == self.row_zbi
    IN  IF row_zero_based_idx >= nrows(M)
        THEN RowIdxOutOfBoundsError(nrows(M))
        ELSE Ok

\* faulty variant: the index is compared with the column count
RowMul_validate_UsesNcols(self, M) ==
    LET row_zero_based_idx == self.row_zbi
    IN  IF row_zero_based_idx >= ncols(M)
        THEN RowIdxOutOfBoundsError(row_zero_based_idx)
        ELSE Ok

RowMul_validate(self, M) ==
    LET row_zero_based_idx == self.row_zbi
    IN  IF row_zero_based_idx >= nrows(M)
        THEN RowIdxOutOfBoundsError(row_zero_based_idx)
        ELSE Ok

(***************************************************************************)
(* The operation contract (elem_row_op.rs).  validate and                  *)
(* perform_unchecked are those of the implementor, Self; perform is        *)
(* derived from them: the result and the matrix it leaves.                 *)
(***************************************************************************)
validate(self, M) ==
    IF self.type = "RowAdd" THEN RowAdd_validate(self, M)
    ELSE RowMul_validate(self, M)

perform_unchecked(self, M) ==
    IF self.type = "RowAdd" THEN RowAdd_perform_unchecked(self, M)
    ELSE RowMul_perform_unchecked(self, M)

perform(self, M) ==
    LET v == validate(self, M)
    IN  IF ~IsOk(v) THEN [res |-> v, m |-> M]
        ELSE [res |-> Ok, m |-> perform_unchecked(self, M)]

(***************************************************************************)
(* The contract implemented for the wrapper MatrixReprOfLinSys (row_add.rs,*)
(* row_mul.rs).  The wrapper is a tuple struct of one field, the matrix:   *)
(* W[1] is m.0.                                                            *)
(***************************************************************************)
MatrixReprOfLinSys(M) == <<M>>

LinSys_RowAdd_perform_unchecked(self, W) ==
    <<RowAdd_perform_unchecked(self, W[1])>>

LinSys_RowAdd_validate(self, W) == RowAdd_validate(self, W[1])

LinSys_RowMul_perform_unchecked(self, W) ==
    <<RowMul_perform_unchecked(self, W[1])>>

LinSys_RowMul_validate(self, W) == RowMul_validate(self, W[1])

LinSys_validate(self, W) ==
    IF self.type = "RowAdd" THEN LinSys_RowAdd_validate(self, W)
    ELSE LinSys_RowMul_validate(self, W)

LinSys_perform_unchecked(self, W) ==
    IF self.type = "RowAdd" THEN LinSys_RowAdd_perform_unchecked(self, W)
    ELSE LinSys_RowMul_perform_unchecked(self, W)

LinSys_perform(self, W) ==
    LET v == LinSys_validate(self, W)
    IN  IF ~IsOk(v) THEN [res |-> v, m |-> W]
        ELSE [res |-> Ok, m |-> LinSys_perform_unchecked(self, W)]

(***************************************************************************)
(* The row exchange as an operation of the contract: the parameter object  *)
(* RowXchg (param_obj.rs) with validate and perform_unchecked as the       *)
(* specification of the row exchange states them, and the perform derived  *)
(* from them.                                                              *)
(***************************************************************************)
RowXchg(i_1, i_2) == [type |-> "RowXchg", row_zbi_1 |-> i_1, row_zbi_2 |-> i_2]

RowXchg_validate(self, M) ==
    LET first == self.row_zbi_1
        second == self.row_zbi_2
    IN  IF first >= nrows(M) /\ second >= nrows(M)
        THEN BothIdcesOutOfBounds(<<first, second>>)
        ELSE IF first >= nrows(M) THEN FirstIdxOutOfBounds(<<first, second>>)
        ELSE IF second >= nrows(M) THEN SecondIdxOutOfBounds(<<first, second>>)
        ELSE Ok

\* every column at once: the entries of the two rows trade places
RowXchg_perform_unchecked(self, M) ==
    LET first == self.row_zbi_1
        second == self.row_zbi_2
    IN  [M EXCEPT !.data =
            [c \in DOMAIN M.data |->
                IF c[1] = first THEN M.data[<<second, c[2]>>]
                ELSE IF c[1] = second THEN M.data[<<first, c[2]>>]
                ELSE M.data[c]]]

RowXchg_perform(self, M) ==
    LET v == RowXchg_validate(self, M)
    IN  IF ~IsOk(v) THEN [res |-> v, m |-> M]
        ELSE [res |-> Ok, m |-> RowXchg_perform_unchecked(self, M)]

(***************************************************************************)
(* MatrixReprOfLinEq (lib.rs): the same three operations as methods with   *)
(* positional arguments.                                                   *)
(***************************************************************************)
RECURSIVE LinEq_row_xchg_loop(_, _, _, _)
LinEq_row_xchg_loop(M, i_1, i_2, j) ==
    IF j >= ncols(M) THEN M
    ELSE LET swapped == swap_unchecked(M, <<i_1, j>>, <<i_2, j>>)
         IN  IF IsFault(swapped) THEN swapped
             ELSE LinEq_row_xchg_loop(swapped, i_1, i_2, j + 1)

LinEq_row_xchg_unchecked(M, i_1, i_2) == LinEq_row_xchg_loop(M, i_1, i_2, 0)

LinEq_row_xchg(M, i_1, i_2) ==
    IF i_1 >= nrows(M) /\ i_2 >= nrows(M)
    THEN [res |-> BothIdcesOutOfBounds(<<i_1, i_2>>), m |-> M]
    ELSE IF i_1 >= nrows(M)
    THEN [res |-> FirstIdxOutOfBounds(<<i_1, i_2>>), m |-> M]
    ELSE IF i_2 >= nrows(M)
    THEN [res |-> SecondIdxOutOfBounds(<<i_1, i_2>>), m |-> M]
    ELSE [res |-> Ok, m |-> LinEq_row_xchg_unchecked(M, i_1, i_2)]

RECURSIVE LinEq_row_add_loop(_, _, _, _, _)
LinEq_row_add_loop(M, i_1, i_2, factor, j) ==
    IF j >= ncols(M) THEN M
    ELSE IF ~InBounds(M, <<i_2, j>>) THEN Panicked(M)
    ELSE IF ~InBounds(M, <<i_1, j>>) THEN Undefined(M)
    ELSE LET corresponding_entry == M.data[<<i_2, j>>]
         IN  LinEq_row_add_loop(
                 [M EXCEPT !.data[<<i_1, j>>] =
                               Add(@, Mul(corresponding_entry, factor))],
                 i_1, i_2, factor, j + 1)

LinEq_row_add_unchecked(M, i_1, i_2, factor) ==
    LinEq_row_add_loop(M, i_1, i_2, factor, 0)

\* faulty variant: the two rows trade roles in the mutation
LinEq_row_add_TradesRoles(M, i_1, i_2, factor) ==
    IF i_1 >= nrows(M) /\ i_2 >= nrows(M)
    THEN [res |-> BothIdcesOutOfBounds(<<i_1, i_2>>), m |-> M]
    ELSE IF i_1 >= nrows(M)
    THEN [res |-> FirstIdxOutOfBounds(<<i_1, i_2>>), m |-> M]
    ELSE IF i_2 >= nrows(M)
    THEN [res |-> SecondIdxOutOfBounds(<<i_1, i_2>>), m |-> M]
    ELSE [res |-> Ok, m |-> LinEq_row_add_unchecked(M, i_2, i_1, factor)]

LinEq_row_add(M, i_1, i_2, factor) ==
    IF i_1 >= nrows(M) /\ i_2 >= nrows(M)
    THEN [res |-> BothIdcesOutOfBounds(<<i_1, i_2>>), m |-> M]
    ELSE IF i_1 >= nrows(M)
    THEN [res |-> FirstIdxOutOfBounds(<<i_1, i_2>>), m |-> M]
    ELSE IF i_2 >= nrows(M)
    THEN [res |-> SecondIdxOutOfBounds(<<i_1, i_2>>), m |-> M]
    ELSE [res |-> Ok, m |-> LinEq_row_add_unchecked(M, i_1, i_2, factor)]

RECURSIVE LinEq_row_mul_loop(_, _, _, _)
LinEq_row_mul_loop(M, i, factor, j) ==
    IF j >= ncols(M) THEN M
    ELSE IF ~InBounds(M, <<i, j>>) THEN Undefined(M)
    ELSE LinEq_row_mul_loop([M EXCEPT !.data[<<i, j>>] = Mul(@, factor)],
                            i, factor, j + 1)

LinEq_row_mul_unchecked(M, i, factor) == LinEq_row_mul_loop(M, i, factor, 0)

LinEq_row_mul(M, i, factor) ==
    IF i >= nrows(M)
    THEN [res |-> RowIdxOutOfBoundsError(i), m |-> M]
    ELSE [res |-> Ok, m |-> LinEq_row_mul_unchecked(M, i, factor)]

(***************************************************************************)
(* State machine: a caller owning one matrix issues calls one at a time.   *)
(* hist records each call: its name, arguments, the matrix before it, the  *)
(* matrix after it and its result.  A call with one row index records it   *)
(* as i_1 and repeats it as i_2; a call without a factor records NoFactor. *)
(* The Call_ actions issue the unchecked calls under their safety         *)
(* precondition (every row index is below the row count); the Misuse_      *)
(* actions issue them with a row index that breaks it.                     *)
(***************************************************************************)
Record(op, i_1, i_2, f, out) ==
    [op |-> op, i_1 |-> i_1, i_2 |-> i_2, factor |-> f,
     pre |-> m, post |-> out.m, res |-> out.res]

Done(op, i_1, i_2, f, out) ==
    /\ m' = out.m
    /\ hist' = Append(hist, Record(op, i_1, i_2, f, out))

Unchecked(M) == [res |-> Ok, m |-> M]

Valid(M, i) == i < nrows(M)

NoFactor == <<0, 1>>

Call_row_xchg(i_1, i_2) ==
    Done("row_xchg", i_1, i_2, NoFactor, row_xchg(m, i_1, i_2))

Call_row_xchg_unchecked(i_1, i_2) ==
    /\ Valid(m, i_1) /\ Valid(m, i_2)
    /\ Done("row_xchg_unchecked", i_1, i_2, NoFactor,
            Unchecked(row_xchg_unchecked(m, i_1, i_2)))

Call_RowAdd_perform(i_1, i_2, f) ==
    Done("RowAdd_perform", i_1, i_2, f, perform(RowAdd(i_1, i_2, f), m))

Call_RowAdd_perform_unchecked(i_1, i_2, f) ==
    /\ Valid(m, i_1) /\ Valid(m, i_2)
    /\ Done("RowAdd_perform_unchecked", i_1, i_2, f,
            Unchecked(RowAdd_perform_unchecked(RowAdd(i_1, i_2, f), m)))

Call_RowMul_perform(i, f) ==
    Done("RowMul_perform", i, i, f, perform(RowMul(i, f), m))

Call_RowMul_perform_unchecked(i, f) ==
    /\ Valid(m, i)
    /\ Done("RowMul_perform_unchecked", i, i, f,
            Unchecked(RowMul_perform_unchecked(RowMul(i, f), m)))

\* validate takes the matrix by shared reference: it returns a result only
Call_RowAdd_validate(i_1, i_2, f) ==
    Done("RowAdd_validate", i_1, i_2, f,
         [res |-> RowAdd_validate(RowAdd(i_1, i_2, f), m), m |-> m])

Call_RowMul_validate(i, f) ==
    Done("RowMul_validate", i, i, f,
         [res |-> RowMul_validate(RowMul(i, f), m), m |-> m])

Call_LinEq_row_xchg(i_1, i_2) ==
    Done("LinEq_row_xchg", i_1, i_2, NoFactor, LinEq_row_xchg(m, i_1, i_2))

Call_LinEq_row_xchg_unchecked(i_1, i_2) ==
    /\ Valid(m, i_1) /\ Valid(m, i_2)
    /\ Done("LinEq_row_xchg_unchecked", i_1, i_2, NoFactor,
            Unchecked(LinEq_row_xchg_unchecked(m, i_1, i_2)))

Call_LinEq_row_add(i_1, i_2, f) ==
    Done("LinEq_row_add", i_1, i_2, f, LinEq_row_add(m, i_1, i_2, f))

Call_LinEq_row_add_unchecked(i_1, i_2, f) ==
    /\ Valid(m, i_1) /\ Valid(m, i_2)
    /\ Done("LinEq_row_add_unchecked", i_1, i_2, f,
            Unchecked(LinEq_row_add_unchecked(m, i_1, i_2, f)))

Call_LinEq_row_mul(i, f) ==
    Done("LinEq_row_mul", i, i, f, LinEq_row_mul(m, i, f))

Call_LinEq_row_mul_unchecked(i, f) ==
    /\ Valid(m, i)
    /\ Done("LinEq_row_mul_unchecked", i, i, f,
            Unchecked(LinEq_row_mul_unchecked(m, i, f)))

\* What the caller observes of an unchecked call: its normal return, the panic
\* of a failed bounds check, or, after undefined behaviour, any of a silent
\* return and a crash of the process.
Panic == [tag |-> "Panic"]

UB(seen) == [tag |-> "UB", seen |-> seen]

Outcomes(X) ==
    IF ~IsFault(X) THEN {[res |-> Ok, m |-> X]}
    ELSE IF X.fault = "panic" THEN {[res |-> Panic, m |-> X.m]}
    ELSE {[res |-> UB(seen), m |-> X.m] : seen \in {"returned", "crashed"}}

Misuse_row_xchg_unchecked(i_1, i_2) ==
    /\ ~(Valid(m, i_1) /\ Valid(m, i_2))
    /\ \E out \in Outcomes(row_xchg_unchecked(m, i_1, i_2)) :
          Done("row_xchg_unchecked", i_1, i_2, NoFactor, out)

Misuse_RowAdd_perform_unchecked(i_1, i_2, f) ==
    /\ ~(Valid(m, i_1) /\ Valid(m, i_2))
    /\ \E out \in Outcomes(RowAdd_perform_unchecked(RowAdd(i_1, i_2, f), m)) :
          Done("RowAdd_perform_unchecked", i_1, i_2, f, out)

Misuse_RowMul_perform_unchecked(i, f) ==
    /\ ~Valid(m, i)
    /\ \E out \in Outcomes(RowMul_perform_unchecked(RowMul(i, f), m)) :
          Done("RowMul_perform_unchecked", i, i, f, out)

Misuse_LinEq_row_xchg_unchecked(i_1, i_2) ==
    /\ ~(Valid(m, i_1) /\ Valid(m, i_2))
    /\ \E out \in Outcomes(LinEq_row_xchg_unchecked(m, i_1, i_2)) :
          Done("LinEq_row_xchg_unchecked", i_1, i_2, NoFactor, out)

Misuse_LinEq_row_add_unchecked(i_1, i_2, f) ==
    /\ ~(Valid(m, i_1) /\ Valid(m, i_2))
    /\ \E out \in Outcomes(LinEq_row_add_unchecked(m, i_1, i_2, f)) :
          Done("LinEq_row_add_unchecked", i_1, i_2, f, out)

Misuse_LinEq_row_mul_unchecked(i, f) ==
    /\ ~Valid(m, i)
    /\ \E out \in Outcomes(LinEq_row_mul_unchecked(m, i, f)) :
          Done("LinEq_row_mul_unchecked", i, i, f, out)

(***************************************************************************)
(* The derived perform (elem_row_op.rs, param_obj.rs), statement by        *)
(* statement.  hist records the steps of one call of perform: the call of  *)
(* validate, the call of perform_unchecked and the return.                 *)
(***************************************************************************)
Step(op, self, out) ==
    [op |-> op, self |-> self, pre |-> m, post |-> out.m, res |-> out.res]

Stepped(op, self, out) ==
    /\ m' = out.m
    /\ hist' = Append(hist, Step(op, self, out))

\* the position in perform: the step made last, "entry" before the first
At(op) == IF hist = <<>> THEN op = "entry" ELSE hist[Len(hist)].op = op

\* faulty variant: the error of validate is dropped
EarlyReturn_Never(v) == FALSE

\* the ? applied to the result of validate: an Err returns from perform
EarlyReturn(v) == v.tag # "Ok"

\* self.validate(m)
Perform_validate(self) ==
    /\ At("entry")
    /\ Stepped("validate", self, [res |-> validate(self, m), m |-> m])

\* ... ?  on an Err
Perform_return_Err ==
    /\ At("validate")
    /\ EarlyReturn(hist[Len(hist)].res)
    /\ Stepped("return", hist[Len(hist)].self,
               [res |-> hist[Len(hist)].res, m |-> m])

\* unsafe { self.perform_unchecked(m) }
Perform_perform_unchecked ==
    /\ At("validate")
    /\ ~EarlyReturn(hist[Len(hist)].res)
    /\ \E out \in Outcomes(perform_unchecked(hist[Len(hist)].self, m)) :
          Stepped("perform_unchecked", hist[Len(hist)].self, out)

\* Ok(())
Perform_return_Ok ==
    /\ At("perform_unchecked")
    /\ hist[Len(hist)].res = Ok
    /\ Stepped("return", hist[Len(hist)].self, [res |-> Ok, m |-> m])

(***************************************************************************)
(* Calls of the contract on the wrapper: the matrix is wrapped, the        *)
(* operation is applied to the wrapper, and the matrix is the wrapper's    *)
(* field afterwards.                                                       *)
(***************************************************************************)
Unwrapped(out) == [res |-> out.res, m |-> out.m[1]]

Call_LinSys_RowAdd_perform(i_1, i_2, f) ==
    Done("LinSys_RowAdd_perform", i_1, i_2, f,
         Unwrapped(LinSys_perform(RowAdd(i_1, i_2, f), MatrixReprOfLinSys(m))))

Call_LinSys_RowAdd_perform_unchecked(i_1, i_2, f) ==
    /\ Valid(m, i_1) /\ Valid(m, i_2)
    /\ Done("LinSys_RowAdd_perform_unchecked", i_1, i_2, f,
            Unwrapped(Unchecked(LinSys_RowAdd_perform_unchecked(
                RowAdd(i_1, i_2, f), MatrixReprOfLinSys(m)))))

Call_LinSys_RowMul_perform(i, f) ==
    Done("LinSys_RowMul_perform", i, i, f,
         Unwrapped(LinSys_perform(RowMul(i, f), MatrixReprOfLinSys(m))))

Call_LinSys_RowMul_perform_unchecked(i, f) ==
    /\ Valid(m, i)
    /\ Done("LinSys_RowMul_perform_unchecked", i, i, f,
            Unwrapped(Unchecked(LinSys_RowMul_perform_unchecked(
                RowMul(i, f), MatrixReprOfLinSys(m)))))

\* every matrix of at most maxCells entries, each in 0..MaxVal
GeneratedMatrices(maxCells) ==
    UNION {{[nrows |-> sh[1], ncols |-> sh[2], data |-> d] :
              d \in [Cells(sh[1], sh[2]) -> {Int2Rat(v) : v \in 0..MaxVal}]} :
           sh \in {s \in (1..maxCells) \X (1..maxCells) : s[1] * s[2] <= maxCells}}

\* the matrices of the tests and documentation examples
ExampleMatrices ==
    {matrix(<<<<1, 2>>, <<3, 4>>>>),
     matrix(<<<<1, 2, 3>>, <<4, 5, 6>>>>),
     matrix(<<<<1, 2, 3>>, <<2, 0, 4>>>>)}

Idx == 0..MaxIdx

Factors == RatsUpTo(MaxNum, MaxDen)

SeqIdx == 0..SeqMaxIdx

SeqFactors ==
    {Int2Rat(n) : n \in (-SeqMaxNum)..SeqMaxNum}
        \cup {Rat(1, n) : n \in 1..SeqMaxNum}
        \cup {Rat(-1, n) : n \in 1..SeqMaxNum}

Init ==
    /\ m \in GeneratedMatrices(MaxCells) \cup ExampleMatrices
    /\ hist = <<>>

InitSeq ==
    /\ m \in GeneratedMatrices(SeqMaxCells) \cup {matrix(<<<<1, 2>>, <<3, 4>>>>)}
    /\ hist = <<>>

\* the caller has made fewer than n calls
Fewer(n) == Len(hist) < n

\* a single call on an initial matrix, of row_xchg.rs, row_add.rs, row_mul.rs
\* or lib.rs
Next ==
    \/ Fewer(1) /\ \E i_1, i_2 \in Idx :
          Call_row_xchg(i_1, i_2)
    \/ Fewer(1) /\ \E i_1, i_2 \in Idx :
          Call_row_xchg_unchecked(i_1, i_2)
    \/ Fewer(1) /\ \E i_1, i_2 \in Idx, f \in Factors :
          Call_RowAdd_perform(i_1, i_2, f)
    \/ Fewer(1) /\ \E i_1, i_2 \in Idx, f \in Factors :
          Call_RowAdd_perform_unchecked(i_1, i_2, f)
    \/ Fewer(1) /\ \E i \in Idx, f \in Factors :
          Call_RowMul_perform(i, f)
    \/ Fewer(1) /\ \E i \in Idx, f \in Factors :
          Call_RowMul_perform_unchecked(i, f)
    \/ Fewer(1) /\ \E i_1, i_2 \in Idx :
          Call_LinEq_row_xchg(i_1, i_2)
    \/ Fewer(1) /\ \E i_1, i_2 \in Idx :
          Call_LinEq_row_xchg_unchecked(i_1, i_2)
    \/ Fewer(1) /\ \E i_1, i_2 \in Idx, f \in Factors :
          Call_LinEq_row_add(i_1, i_2, f)
    \/ Fewer(1) /\ \E i_1, i_2 \in Idx, f \in Factors :
          Call_LinEq_row_add_unchecked(i_1, i_2, f)
    \/ Fewer(1) /\ \E i \in Idx, f \in Factors :
          Call_LinEq_row_mul(i, f)
    \/ Fewer(1) /\ \E i \in Idx, f \in Factors :
          Call_LinEq_row_mul_unchecked(i, f)
    \/ Fewer(1) /\ \E i_1, i_2 \in Idx, f \in Factors :
          Call_RowAdd_validate(i_1, i_2, f)
    \/ Fewer(1) /\ \E i \in Idx, f \in Factors :
          Call_RowMul_validate(i, f)

Spec == Init /\ [][Next]_vars

\* two calls in succession of row_xchg.rs, row_add.rs or row_mul.rs
NextSeq ==
    \/ Fewer(2) /\ \E i_1, i_2 \in SeqIdx :
          Call_row_xchg(i_1, i_2)
    \/ Fewer(2) /\ \E i_1, i_2 \in SeqIdx :
          Call_row_xchg_unchecked(i_1, i_2)
    \/ Fewer(2) /\ \E i_1, i_2 \in SeqIdx, f \in SeqFactors :
          Call_RowAdd_perform(i_1, i_2, f)
    \/ Fewer(2) /\ \E i_1, i_2 \in SeqIdx, f \in SeqFactors :
          Call_RowAdd_perform_unchecked(i_1, i_2, f)
    \/ Fewer(2) /\ \E i \in SeqIdx, f \in SeqFactors :
          Call_RowMul_perform(i, f)
    \/ Fewer(2) /\ \E i \in SeqIdx, f \in SeqFactors :
          Call_RowMul_perform_unchecked(i, f)

SpecSeq == InitSeq /\ [][NextSeq]_vars

\* a single unchecked call on an initial matrix, with any row indices
NextUnsafe ==
    \/ Fewer(1) /\ \E i_1, i_2 \in Idx :
          Call_row_xchg_unchecked(i_1, i_2)
    \/ Fewer(1) /\ \E i_1, i_2 \in Idx, f \in Factors :
          Call_RowAdd_perform_unchecked(i_1, i_2, f)
    \/ Fewer(1) /\ \E i \in Idx, f \in Factors :
          Call_RowMul_perform_unchecked(i, f)
    \/ Fewer(1) /\ \E i_1, i_2 \in Idx :
          Call_LinEq_row_xchg_unchecked(i_1, i_2)
    \/ Fewer(1) /\ \E i_1, i_2 \in Idx, f \in Factors :
          Call_LinEq_row_add_unchecked(i_1, i_2, f)
    \/ Fewer(1) /\ \E i \in Idx, f \in Factors :
          Call_LinEq_row_mul_unchecked(i, f)
    \/ Fewer(1) /\ \E i_1, i_2 \in Idx :
          Misuse_row_xchg_unchecked(i_1, i_2)
    \/ Fewer(1) /\ \E i_1, i_2 \in Idx, f \in Factors :
          Misuse_RowAdd_perform_unchecked(i_1, i_2, f)
    \/ Fewer(1) /\ \E i \in Idx, f \in Factors :
          Misuse_RowMul_perform_unchecked(i, f)
    \/ Fewer(1) /\ \E i_1, i_2 \in Idx :
          Misuse_LinEq_row_xchg_unchecked(i_1, i_2)
    \/ Fewer(1) /\ \E i_1, i_2 \in Idx, f \in Factors :
          Misuse_LinEq_row_add_unchecked(i_1, i_2, f)
    \/ Fewer(1) /\ \E i \in Idx, f \in Factors :
          Misuse_LinEq_row_mul_unchecked(i, f)

SpecUnsafe == Init /\ [][NextUnsafe]_vars

\* a single call of validate on an initial matrix
NextValidate ==
    \/ Fewer(1) /\ \E i_1, i_2 \in Idx, f \in Factors :
          Call_RowAdd_validate(i_1, i_2, f)
    \/ Fewer(1) /\ \E i \in Idx, f \in Factors :
          Call_RowMul_validate(i, f)

SpecValidate == Init /\ [][NextValidate]_vars

\* one call of the derived perform on an initial matrix, step by step
NextPerform ==
    \/ At("entry") /\ \E i_1, i_2 \in Idx, f \in Factors :
          Perform_validate(RowAdd(i_1, i_2, f))
    \/ At("entry") /\ \E i \in Idx, f \in Factors :
          Perform_validate(RowMul(i, f))
    \/ Perform_return_Err
    \/ Perform_perform_unchecked
    \/ Perform_return_Ok

SpecPerform == Init /\ [][NextPerform]_vars

\* a single call on an initial matrix through a wrapper: the methods of
\* MatrixReprOfLinSys and MatrixReprOfLinEq and the contract on the wrapper
NextWrapper ==
    \/ Fewer(1) /\ \E i_1, i_2 \in Idx :
          Call_row_xchg(i_1, i_2)
    \/ Fewer(1) /\ \E i_1, i_2 \in Idx :
          Call_row_xchg_unchecked(i_1, i_2)
    \/ Fewer(1) /\ \E i_1, i_2 \in Idx, f \in Factors :
          Call_LinSys_RowAdd_perform(i_1, i_2, f)
    \/ Fewer(1) /\ \E i_1, i_2 \in Idx, f \in Factors :
          Call_LinSys_RowAdd_perform_unchecked(i_1, i_2, f)
    \/ Fewer(1) /\ \E i \in Idx, f \in Factors :
          Call_LinSys_RowMul_perform(i, f)
    \/ Fewer(1) /\ \E i \in Idx, f \in Factors :
          Call_LinSys_RowMul_perform_unchecked(i, f)
    \/ Fewer(1) /\ \E i_1, i_2 \in Idx :
          Call_LinEq_row_xchg(i_1, i_2)
    \/ Fewer(1) /\ \E i_1, i_2 \in Idx :
          Call_LinEq_row_xchg_unchecked(i_1, i_2)
    \/ Fewer(1) /\ \E i_1, i_2 \in Idx, f \in Factors :
          Call_LinEq_row_add(i_1, i_2, f)
    \/ Fewer(1) /\ \E i_1, i_2 \in Idx, f \in Factors :
          Call_LinEq_row_add_unchecked(i_1, i_2, f)
    \/ Fewer(1) /\ \E i \in Idx, f \in Factors :
          Call_LinEq_row_mul(i, f)
    \/ Fewer(1) /\ \E i \in Idx, f \in Factors :
          Call_LinEq_row_mul_unchecked(i, f)

SpecWrapper == Init /\ [][NextWrapper]_vars

(***************************************************************************)
(* The calls of the history, by operation.                                 *)
(***************************************************************************)
CallsMade == {hist[k] : k \in DOMAIN hist}

XchgChecked == {"row_xchg", "LinEq_row_xchg"}

XchgUnchecked == {"row_xchg_unchecked", "LinEq_row_xchg_unchecked"}

AddChecked == {"RowAdd_perform", "LinEq_row_add"}

AddUnchecked == {"RowAdd_perform_unchecked", "LinEq_row_add_unchecked"}

MulChecked == {"RowMul_perform", "LinEq_row_mul"}

MulUnchecked == {"RowMul_perform_unchecked", "LinEq_row_mul_unchecked"}

Checked == XchgChecked \cup AddChecked \cup MulChecked

\* the call went through to the mutation
Applied(c) == IsOk(c.res) /\ c.op \notin {"RowAdd_validate", "RowMul_validate"}

SameShape(A, B) == A.nrows = B.nrows /\ A.ncols = B.ncols

Cols(M) == 0..(M.ncols - 1)

Rows(M) == 0..(M.nrows - 1)

\* rows other than those in S are the same in A and B
SameOutside(A, B, S) ==
    \A r \in Rows(A) \ S : \A j \in Cols(A) : B.data[<<r, j>>] = A.data[<<r, j>>]

(***************************************************************************)
(* C1: validation of a row exchange (first, second) or a row addition      *)
(* (target, source) against a matrix of n rows returns                     *)
(* BothIdcesOutOfBounds when both indices are >= n, FirstIdxOutOfBounds    *)
(* when only the first is, SecondIdxOutOfBounds when only the second is,   *)
(* and success when both are < n; each error carries the pair              *)
(* (first, second) in argument order.                                      *)
(***************************************************************************)
BinaryClassification(c) ==
    LET n == c.pre.nrows
        p == <<c.i_1, c.i_2>>
    IN  /\ (c.i_1 >= n /\ c.i_2 >= n) => c.res = BothIdcesOutOfBounds(p)
        /\ (c.i_1 >= n /\ c.i_2 < n) => c.res = FirstIdxOutOfBounds(p)
        /\ (c.i_1 < n /\ c.i_2 >= n) => c.res = SecondIdxOutOfBounds(p)
        /\ (c.i_1 < n /\ c.i_2 < n) => c.res = Ok

C1_BinaryIndexErrors ==
    \A c \in CallsMade :
        c.op \in XchgChecked \cup AddChecked \cup {"RowAdd_validate"}
            => BinaryClassification(c)

\* RowExchange{0, 5} on the 2-row matrix [[1,2],[3,4]]
C1_Witness ==
    \E c \in CallsMade :
        /\ c.op = "row_xchg"
        /\ c.pre = matrix(<<<<1, 2>>, <<3, 4>>>>)
        /\ c.i_1 = 0 /\ c.i_2 = 5
        /\ c.res = SecondIdxOutOfBounds(<<0, 5>>)

(***************************************************************************)
(* C2: a checked call (exchange, addition, scaling) with a row index >=    *)
(* the row count returns an error and leaves every entry of the matrix as  *)
(* it was.                                                                 *)
(***************************************************************************)
C2_ErrorLeavesMatrix ==
    \A c \in CallsMade :
        (c.op \in Checked /\ (c.i_1 >= c.pre.nrows \/ c.i_2 >= c.pre.nrows))
            => /\ ~IsOk(c.res)
               /\ c.post = c.pre
               /\ (c = hist[Len(hist)] => m = c.pre)

\* a row addition whose source index is beyond the last row of a matrix
\* with a nonzero entry
C2_Witness ==
    \E c \in CallsMade :
        /\ c.op = "RowAdd_perform"
        /\ c.i_1 < c.pre.nrows /\ c.i_2 >= c.pre.nrows
        /\ c.factor # Int2Rat(0)
        /\ \E j \in Cols(c.pre) : c.pre.data[<<c.i_1, j>>] # Int2Rat(0)
        /\ ~IsOk(c.res)
        /\ m = c.pre

(***************************************************************************)
(* C3: validation of a row scaling of row `row` against a matrix of n rows *)
(* returns RowIdxOutOfBoundsError carrying row when row >= n and success   *)
(* exactly when row < n, whatever the factor.                              *)
(***************************************************************************)
C3_SingleIndexError ==
    \A c \in CallsMade :
        c.op \in MulChecked \cup {"RowMul_validate"}
            => /\ c.i_1 >= c.pre.nrows => c.res = RowIdxOutOfBoundsError(c.i_1)
               /\ c.i_1 < c.pre.nrows <=> c.res = Ok

C3_Witness ==
    \E c \in CallsMade :
        /\ c.op = "RowMul_validate"
        /\ c.pre.nrows = 2
        /\ c.i_1 = 2
        /\ c.factor = Int2Rat(3)
        /\ c.res = RowIdxOutOfBoundsError(2)

(***************************************************************************)
(* C4: a row addition with valid target # source and factor f gives        *)
(* M'[target][j] = M[target][j] + M[source][j] * f in every column j and   *)
(* leaves every other row (the source row included) as it was.             *)
(***************************************************************************)
C4_RowAddResult ==
    \A c \in CallsMade :
        (/\ c.op \in AddChecked \cup AddUnchecked
         /\ c.i_1 < c.pre.nrows /\ c.i_2 < c.pre.nrows
         /\ c.i_1 # c.i_2)
            => /\ Applied(c)
               /\ SameShape(c.pre, c.post)
               /\ \A j \in Cols(c.pre) :
                     c.post.data[<<c.i_1, j>>] =
                         Add(c.pre.data[<<c.i_1, j>>],
                             Mul(c.pre.data[<<c.i_2, j>>], c.factor))
               /\ SameOutside(c.pre, c.post, {c.i_1})

\* [[1,2,3],[4,5,6]] with target 1, source 0, factor -4
C4_Witness ==
    \E c \in CallsMade :
        /\ c.op = "RowAdd_perform"
        /\ c.pre = matrix(<<<<1, 2, 3>>, <<4, 5, 6>>>>)
        /\ c.i_1 = 1 /\ c.i_2 = 0 /\ c.factor = Int2Rat(-4)
        /\ c.post = matrix(<<<<1, 2, 3>>, <<0, -3, -6>>>>)
        /\ m = c.post

(***************************************************************************)
(* C5: a row exchange with valid first, second gives                       *)
(* M'[first][j] = M[second][j] and M'[second][j] = M[first][j] in every    *)
(* column j and leaves every other row as it was.                          *)
(***************************************************************************)
C5_RowXchgResult ==
    \A c \in CallsMade :
        (/\ c.op \in XchgChecked \cup XchgUnchecked
         /\ c.i_1 < c.pre.nrows /\ c.i_2 < c.pre.nrows)
            => /\ Applied(c)
               /\ SameShape(c.pre, c.post)
               /\ \A j \in Cols(c.pre) :
                     /\ c.post.data[<<c.i_1, j>>] = c.pre.data[<<c.i_2, j>>]
                     /\ c.post.data[<<c.i_2, j>>] = c.pre.data[<<c.i_1, j>>]
               /\ SameOutside(c.pre, c.post, {c.i_1, c.i_2})

\* [[1,2],[3,4]] with RowExchange{0, 1}
C5_Witness ==
    \E c \in CallsMade :
        /\ c.op = "row_xchg_unchecked"
        /\ c.pre = matrix(<<<<1, 2>>, <<3, 4>>>>)
        /\ c.i_1 = 0 /\ c.i_2 = 1
        /\ c.post = matrix(<<<<3, 4>>, <<1, 2>>>>)
        /\ m = c.post

(***************************************************************************)
(* C6: a row scaling with valid row and factor f gives                     *)
(* M'[row][j] = M[row][j] * f in every column j and leaves every other row *)
(* as it was.                                                              *)
(***************************************************************************)
C6_RowMulResult ==
    \A c \in CallsMade :
        (/\ c.op \in MulChecked \cup MulUnchecked
         /\ c.i_1 < c.pre.nrows)
            => /\ Applied(c)
               /\ SameShape(c.pre, c.post)
               /\ \A j \in Cols(c.pre) :
                     c.post.data[<<c.i_1, j>>] =
                         Mul(c.pre.data[<<c.i_1, j>>], c.factor)
               /\ SameOutside(c.pre, c.post, {c.i_1})

\* [[1,2],[3,4]] with row 0, factor 2
C6_Witness ==
    \E c \in CallsMade :
        /\ c.op = "RowMul_perform"
        /\ c.pre = matrix(<<<<1, 2>>, <<3, 4>>>>)
        /\ c.i_1 = 0 /\ c.factor = Int2Rat(2)
        /\ c.post = matrix(<<<<2, 4>>, <<3, 4>>>>)
        /\ m = c.post

(***************************************************************************)
(* C9: a row exchange of a valid row with itself succeeds and leaves every *)
(* entry of the matrix as it was.                                          *)
(***************************************************************************)
C9_SelfXchgNoOp ==
    \A c \in CallsMade :
        (/\ c.op \in XchgChecked \cup XchgUnchecked
         /\ c.i_1 = c.i_2
         /\ c.i_1 < c.pre.nrows)
            => /\ Applied(c)
               /\ c.post = c.pre
               /\ (c = hist[Len(hist)] => m = c.pre)

C9_Witness ==
    \E c \in CallsMade :
        /\ c.op = "row_xchg"
        /\ c.pre = matrix(<<<<1, 2>>, <<3, 4>>>>)
        /\ c.i_1 = 1 /\ c.i_2 = 1
        /\ c.res = Ok
        /\ m = c.pre

(***************************************************************************)
(* Two calls in succession: hist[k] and hist[k + 1].                       *)
(***************************************************************************)
Successive == {<<hist[k], hist[k + 1]>> : k \in 1..(Len(hist) - 1)}

\* the additive inverse of a scalar, and its multiplicative inverse when it
\* has one (the claims' "negated factor" and "inverse(factor)")
Neg(a) == <<-a[1], a[2]>>

HasInverse(a) == a[1] # 0

Inverse(a) == IF a[1] > 0 THEN <<a[2], a[1]>> ELSE <<-a[2], -a[1]>>

SameRows(a, b) == a.i_1 = b.i_1 /\ a.i_2 = b.i_2

ValidRows(c) == c.i_1 < c.pre.nrows /\ c.i_2 < c.pre.nrows

\* a row addition followed by the row addition with the same rows and the
\* negated factor
AddThenNegated(p) ==
    /\ p[1].op \in AddChecked \cup AddUnchecked
    /\ p[2].op \in AddChecked \cup AddUnchecked
    /\ ValidRows(p[1])
    /\ SameRows(p[1], p[2])
    /\ p[2].factor = Neg(p[1].factor)

(***************************************************************************)
(* C7 as stated: for every pair of valid rows (target, source) and every   *)
(* factor f, RowAdd(target, source, f) followed by                         *)
(* RowAdd(target, source, -f) restores the original matrix.                *)
(***************************************************************************)
C7_Original ==
    \A p \in Successive :
        AddThenNegated(p) => (p[2].post = p[1].pre /\ m = p[1].pre)

(***************************************************************************)
(* C7 as amended: for every pair of valid rows target # source and every   *)
(* factor f, RowAdd(target, source, f) followed by                         *)
(* RowAdd(target, source, -f) restores the original matrix.                *)
(***************************************************************************)
C7_RowAddUndone ==
    \A p \in Successive :
        (AddThenNegated(p) /\ p[1].i_1 # p[1].i_2)
            => (p[2].post = p[1].pre /\ m = p[1].pre)

\* the first addition changed the matrix, the second restored it
C7_Witness ==
    \E p \in Successive :
        /\ AddThenNegated(p)
        /\ p[1].i_1 # p[1].i_2
        /\ p[1].factor # Int2Rat(0)
        /\ p[1].post # p[1].pre
        /\ m = p[1].pre

(***************************************************************************)
(* C8: for valid rows i # j, RowExchange(i, j) applied twice in succession *)
(* restores the original matrix.                                           *)
(***************************************************************************)
XchgTwice(p) ==
    /\ p[1].op \in XchgChecked \cup XchgUnchecked
    /\ p[2].op \in XchgChecked \cup XchgUnchecked
    /\ ValidRows(p[1])
    /\ SameRows(p[1], p[2])
    /\ p[1].i_1 # p[1].i_2

C8_XchgInvolution ==
    \A p \in Successive :
        XchgTwice(p) => (p[2].post = p[1].pre /\ m = p[1].pre)

C8_Witness ==
    \E p \in Successive :
        /\ XchgTwice(p)
        /\ p[1].pre = matrix(<<<<1, 2>>, <<3, 4>>>>)
        /\ p[1].post = matrix(<<<<3, 4>>, <<1, 2>>>>)
        /\ m = p[1].pre

(***************************************************************************)
(* C10: for a valid row and a factor f with a multiplicative inverse,      *)
(* RowScale(row, f) followed by RowScale(row, inverse(f)) restores the     *)
(* original matrix.                                                        *)
(***************************************************************************)
MulThenInverse(p) ==
    /\ p[1].op \in MulChecked \cup MulUnchecked
    /\ p[2].op \in MulChecked \cup MulUnchecked
    /\ ValidRows(p[1])
    /\ SameRows(p[1], p[2])
    /\ HasInverse(p[1].factor)
    /\ p[2].factor = Inverse(p[1].factor)

C10_RowMulUndone ==
    \A p \in Successive :
        MulThenInverse(p) => (p[2].post = p[1].pre /\ m = p[1].pre)

\* scaling by 1/2 and then by 2, through entries that are not integers
C10_Witness ==
    \E p \in Successive :
        /\ MulThenInverse(p)
        /\ p[1].factor = Rat(1, 2)
        /\ p[1].pre = matrix(<<<<1, 2>>, <<3, 4>>>>)
        /\ p[1].post.data[<<1, 0>>] = Rat(3, 2)
        /\ m = p[1].pre

(***************************************************************************)
(* C15: perform_unchecked of every operation (exchange, addition, scaling) *)
(* does not re-check its precondition: a call with a row index >= the row  *)
(* count is never detected by perform_unchecked itself, neither by an      *)
(* error value nor by a failed bounds check.                               *)
(***************************************************************************)
ErrorTags ==
    {"FirstIdxOutOfBounds", "SecondIdxOutOfBounds", "BothIdcesOutOfBounds",
     "RowIdxOutOfBoundsError"}

C15_UncheckedNeverDetects ==
    \A c \in CallsMade :
        (/\ c.op \in XchgUnchecked \cup AddUnchecked \cup MulUnchecked
         /\ ~ValidRows(c))
            => c.res.tag \notin ErrorTags \cup {"Panic"}

(***************************************************************************)
(* C13: a row addition whose target and source are the same valid row i    *)
(* is accepted and replaces every entry of row i by                        *)
(* M[i][j] + M[i][j] * f, both operands being the entries before the call; *)
(* every other row is unchanged.                                           *)
(***************************************************************************)
C13_SelfAddition ==
    \A c \in CallsMade :
        (/\ c.op \in AddChecked \cup AddUnchecked
         /\ c.i_1 = c.i_2
         /\ c.i_1 < c.pre.nrows)
            => /\ Applied(c)
               /\ SameShape(c.pre, c.post)
               /\ \A j \in Cols(c.pre) :
                      c.post.data[<<c.i_1, j>>] =
                          Add(c.pre.data[<<c.i_1, j>>],
                              Mul(c.pre.data[<<c.i_1, j>>], c.factor))
               /\ SameOutside(c.pre, c.post, {c.i_1})
               /\ (c = hist[Len(hist)] => m = c.post)

\* RowAdd{1, 1, 2} on [[1,2],[3,4]] gives [[1,2],[9,12]]
C13_Witness ==
    \E c \in CallsMade :
        /\ c.op = "RowAdd_perform"
        /\ c.pre = matrix(<<<<1, 2>>, <<3, 4>>>>)
        /\ c.i_1 = 1 /\ c.i_2 = 1 /\ c.factor = Int2Rat(2)
        /\ c.res = Ok
        /\ c.post = matrix(<<<<1, 2>>, <<9, 12>>>>)

(***************************************************************************)
(* C12: validate leaves the matrix unchanged, and its result is a function *)
(* of the row indices of the operation and the row count of the matrix     *)
(* only: the same indices give the same result with any other factor, on   *)
(* any matrix of the same row count whatever its entries and its column    *)
(* count.                                                                  *)
(***************************************************************************)
\* matrices of n rows that differ in column count and in entries
OfRowCount(n) ==
    {[nrows |-> n, ncols |-> w, data |-> [c \in Cells(n, w) |-> Int2Rat(v)]] :
        w \in 1..2, v \in 0..1}

\* the parameter object of the call c, with the factor f
SelfOf(c, f) ==
    IF c.op = "RowAdd_validate" THEN RowAdd(c.i_1, c.i_2, f) ELSE RowMul(c.i_1, f)

\* factors other than the one of the call c
OtherFactors(c) == {Int2Rat(0), Int2Rat(1), Neg(c.factor)} \ {c.factor}

C12_ValidateIsPure ==
    \A c \in CallsMade :
        c.op \in {"RowAdd_validate", "RowMul_validate"}
            => /\ c.post = c.pre
               /\ (c = hist[Len(hist)] => m = c.pre)
               /\ \A f \in OtherFactors(c) : \A M \in OfRowCount(c.pre.nrows) :
                      validate(SelfOf(c, f), M) = c.res

\* RowMul{2, 1}.validate on the 2x3 matrix [[1,2,3],[4,5,6]]: the index is
\* below the column count and not below the row count
C12_Witness ==
    \E c \in CallsMade :
        /\ c.op = "RowMul_validate"
        /\ c.pre = matrix(<<<<1, 2, 3>>, <<4, 5, 6>>>>)
        /\ c.i_1 = 2 /\ c.factor = Int2Rat(1)
        /\ c.res = RowIdxOutOfBoundsError(2)
        /\ c.post = c.pre

(***************************************************************************)
(* C11: in the derived perform, validate runs first and perform_unchecked  *)
(* is started only after validate has succeeded.  When validate fails,     *)
(* perform returns exactly the error of validate, perform_unchecked is     *)
(* never invoked and the matrix is as before the call.  When validate      *)
(* succeeds, perform returns success and the matrix is the one             *)
(* perform_unchecked left.  No error comes from anywhere but validate.     *)
(***************************************************************************)
StepsMade == DOMAIN hist

C11_PerformOrder ==
    /\ hist # <<>> => hist[1].op = "validate" /\ hist[1].post = hist[1].pre
    /\ \A k \in StepsMade :
          hist[k].op = "perform_unchecked"
              => /\ k = 2
                 /\ hist[1].res.tag = "Ok"
                 /\ hist[k].self = hist[1].self
                 /\ hist[k].pre = hist[1].pre
                 /\ hist[k].res = Ok
    /\ \A k \in StepsMade :
          hist[k].op = "return"
              => /\ k = Len(hist)
                 /\ m = hist[k].post
                 /\ [res |-> hist[k].res, m |-> m] = perform(hist[1].self, hist[1].pre)
                 /\ hist[1].res.tag # "Ok"
                        => /\ hist[k].res = hist[1].res
                           /\ k = 2
                           /\ m = hist[1].pre
                 /\ hist[1].res.tag = "Ok"
                        => /\ hist[k].res = Ok
                           /\ k = 3
                           /\ hist[2].op = "perform_unchecked"
                           /\ m = hist[2].post

\* RowAdd{0, 5, 2}.perform on [[1,2],[3,4]]: validate fails, perform returns
\* its error without a call of perform_unchecked
C11_Witness ==
    /\ Len(hist) = 2
    /\ hist[1].op = "validate"
    /\ hist[1].self = RowAdd(0, 5, Int2Rat(2))
    /\ hist[1].pre = matrix(<<<<1, 2>>, <<3, 4>>>>)
    /\ hist[1].res = SecondIdxOutOfBounds(<<0, 5>>)
    /\ hist[2].op = "return"
    /\ hist[2].res = hist[1].res
    /\ m = matrix(<<<<1, 2>>, <<3, 4>>>>)

(***************************************************************************)
(* C14: for each of the three operations and every input, the checked      *)
(* method of the wrapper returns the same result (success, or the same     *)
(* error variant carrying the same indices) and leaves the same matrix as  *)
(* the perform of the operation contract applied to the wrapped matrix;    *)
(* the unchecked method on valid indices leaves the same matrix as         *)
(* perform_unchecked.  The wrapper holds nothing but the matrix.           *)
(***************************************************************************)
WrapperChecked ==
    {"row_xchg", "LinEq_row_xchg", "LinSys_RowAdd_perform", "LinEq_row_add",
     "LinSys_RowMul_perform", "LinEq_row_mul"}

WrapperUnchecked ==
    {"row_xchg_unchecked", "LinEq_row_xchg_unchecked",
     "LinSys_RowAdd_perform_unchecked", "LinEq_row_add_unchecked",
     "LinSys_RowMul_perform_unchecked", "LinEq_row_mul_unchecked"}

\* the perform of the contract, for the operation and arguments of the call c
ContractPerform(c) ==
    IF c.op \in {"row_xchg", "LinEq_row_xchg"}
    THEN RowXchg_perform(RowXchg(c.i_1, c.i_2), c.pre)
    ELSE IF c.op \in {"LinSys_RowAdd_perform", "LinEq_row_add"}
    THEN perform(RowAdd(c.i_1, c.i_2, c.factor), c.pre)
    ELSE perform(RowMul(c.i_1, c.factor), c.pre)

ContractPerformUnchecked(c) ==
    IF c.op \in {"row_xchg_unchecked", "LinEq_row_xchg_unchecked"}
    THEN RowXchg_perform_unchecked(RowXchg(c.i_1, c.i_2), c.pre)
    ELSE IF c.op \in {"LinSys_RowAdd_perform_unchecked", "LinEq_row_add_unchecked"}
    THEN perform_unchecked(RowAdd(c.i_1, c.i_2, c.factor), c.pre)
    ELSE perform_unchecked(RowMul(c.i_1, c.factor), c.pre)

C14_WrapperRefines ==
    \A c \in CallsMade :
        /\ c.op \in WrapperChecked
              => /\ [res |-> c.res, m |-> c.post] = ContractPerform(c)
                 /\ (c = hist[Len(hist)] => m = ContractPerform(c).m)
        /\ (c.op \in WrapperUnchecked /\ ValidRows(c))
              => /\ c.post = ContractPerformUnchecked(c)
                 /\ (c = hist[Len(hist)] => m = c.post)
        /\ MatrixReprOfLinSys(c.post)[1] = c.post
        /\ Len(MatrixReprOfLinSys(c.post)) = 1

\* row_add(0, 1, -2) of the wrapper on [[1,2,3],[2,0,4]], as the perform of
\* RowAdd{0, 1, -2} does: [[-3,2,-5],[2,0,4]]
C14_Witness ==
    \E c \in CallsMade :
        /\ c.op = "LinEq_row_add"
        /\ c.pre = matrix(<<<<1, 2, 3>>, <<2, 0, 4>>>>)
        /\ c.i_1 = 0 /\ c.i_2 = 1 /\ c.factor = Int2Rat(-2)
        /\ c.res = Ok
        /\ c.post = matrix(<<<<-3, 2, -5>>, <<2, 0, 4>>>>)
        /\ c.post = perform(RowAdd(0, 1, Int2Rat(-2)), c.pre).m

====
